---- MODULE Spec2Model ----
(***************************************************************************)
(* State-machine model of the Snake game in v2.ino: the SnakeGame engine   *)
(* (reset / setPending / update / step / spawnApple / triggerGameOver),    *)
(* the frame last shown on the LED matrix, the game-over sound, and the    *)
(* two input readers (InputICM20948::readDir, InputJoystick::read).        *)
(* The tilt sketch (lines 1-330) and the joystick sketch (lines 331-636)   *)
(* carry the same SnakeGame class; line numbers refer to the first copy.   *)
(*                                                                         *)
(* snake[] is a 64-entry array of which only snake[0..len-1] is ever read; *)
(* the model keeps that live prefix as a sequence, so the C++ index i is   *)
(* the TLA+ index i+1.                                                     *)
(***************************************************************************)
EXTENDS Integers, Sequences, FiniteSets

VARIABLES
    snake,          \* Point snake[NUM_LEDS], live prefix, head first
    len,            \* uint8_t len
    apple,          \* Point apple
    dir,            \* Dir dir
    pending,        \* Dir pending
    gameOverFlag,   \* bool gameOverFlag
    lastStep,       \* unsigned long lastStep, as two 16-bit halves
    stepMs,         \* unsigned long stepMs
    clock,          \* the value millis() returned at the latest call, as two
                    \* 16-bit halves
    frame,          \* what the LED matrix shows since the last show()
    gameOverSounds, \* calls of sfx.gameOver() since the last reset()
    pc,             \* "loop": between calls; "spawnApple": inside its while(true)
    lastOp          \* history: what the latest call did: "reset" (reset() while
                    \* running), "revive" (reset() in game over), "setPending",
                    \* "wait" (update() before the interval elapsed), "cross"
                    \* (update() in game over), and for an update() that ran
                    \* step(): "move", "chase" (a move onto the cell the tail
                    \* was leaving), "eat", "die", or "spin" when spawnApple()
                    \* found no free cell; "trigger" for a call of the
                    \* public triggerGameOver() of the joystick sketch;
                    \* "readDir" and "joyRead" for the input half of loop()
                    \* (read the device, setPending)

\* The input readers.  Accelerations are floats, in g.
VARIABLES
    ax0, ay0,       \* InputICM20948::ax0, ay0: the rest offset of calibrateZero()
    fx, fy,         \* InputICM20948::fx, fy: the smoothed deltas
    dx, dy,         \* history: readDir's locals dx, dy at its latest call
    inX, inY,       \* history: the raw sample of the latest read (mg for the
                    \* accelerometer, analogRead counts for the joystick)
    reads           \* history: reads of the input device so far

inputVars == <<ax0, ay0, fx, fy, dx, dy, inX, inY, reads>>

vars == <<snake, len, apple, dir, pending, gameOverFlag, lastStep, stepMs,
          clock, frame, gameOverSounds, pc, lastOp, ax0, ay0, fx, fy, dx, dy,
          inX, inY, reads>>

-----------------------------------------------------------------------------
(* Program constants *)

W == 8
H == 8
NUM_LEDS == W * H

StartStepMs == 300
FloorStepMs == 90
StepDecrement == 12

\* unsigned long is 32 bits wide on the target
TimerBits == 32
\* samples calibrateZero() averages
CalSamples == 50
\* accX() / 1000.0f
MilliGPerG == 1000
\* the joystick sketch: DEADZONE and the centre analogRead() is offset by
DEADZONE == 180
JoyCentre == 512

(* Bounds of the model *)

\* The environment stops calling once the timer has advanced MaxTicks half
\* step-intervals (Spec).
MaxTicks == 14
\* How many cells of AppleList random() may yield (Spec).
NumAppleDraws == 5
\* Full step-intervals the environment lets pass in CycleSpec.
CycleTicks == 64
\* random() yields a cell at most this many cells ahead of the head along
\* the tour (CycleSpec).
AppleAhead == 2
\* Reads of the input device in InputSpec.
MaxReads == 3
\* Half step intervals of play in WrapSpec.
WrapTicks == 8
\* Half step intervals of play in ApiSpec.
ApiTicks == 10
\* Calls of sfx.gameOver() between two reset() calls in ApiSpec.
MaxSounds == 2

UP == "UP"
DOWN == "DOWN"
LEFT == "LEFT"
RIGHT == "RIGHT"
Dir == {UP, DOWN, LEFT, RIGHT}

Point(px, py) == [x |-> px, y |-> py]
Cells == {Point(px, py) : px \in 0..(W - 1), py \in 0..(H - 1)}

Min(a, b) == IF a < b THEN a ELSE b

-----------------------------------------------------------------------------
(* unsigned long: a 32-bit value v is held as [hi, lo] with                *)
(* v = hi * 2^16 + lo, so that no intermediate result leaves the range of  *)
(* the checker's integers.                                                 *)

Limb == 2 ^ (TimerBits \div 2)

ULong == [hi : 0..(Limb - 1), lo : 0..(Limb - 1)]

\* the unsigned long of value n, 0 <= n < 2^31
U32(n) == [hi |-> n \div Limb, lo |-> n % Limb]

\* a + t modulo 2^32, 0 <= t < 2^16
Add32(a, t) ==
    [hi |-> (a.hi + ((a.lo + t) \div Limb)) % Limb, lo |-> (a.lo + t) % Limb]

\* a - b modulo 2^32
Sub32(a, b) ==
    [hi |-> (a.hi - b.hi - (IF a.lo < b.lo THEN 1 ELSE 0) + Limb) % Limb,
     lo |-> (a.lo - b.lo + Limb) % Limb]

\* a >= b on unsigned long
GreaterEq32(a, b) == a.hi > b.hi \/ (a.hi = b.hi /\ a.lo >= b.lo)

-----------------------------------------------------------------------------
(* float: IEEE 754 binary32 with round to nearest, ties to even.  A float  *)
(* is [s, e, m] and stands for (-1)^s * m * 2^e with 0 <= m < 2^24; m is   *)
(* at least 2^23 unless e = MinExp (zero and the subnormals).  Infinities  *)
(* and NaN are left out: accelerations stay within a few g.                *)

MantBits == 24
MinExp == -149
Mant == 2 ^ MantBits
HalfMant == 2 ^ (MantBits - 1)
\* the base the 48-bit intermediate results are held in two digits of
MantRoot == 2 ^ (MantBits \div 2)

Max(a, b) == IF a > b THEN a ELSE b

Sign(v) == IF v > 0 THEN 1 ELSE IF v < 0 THEN -1 ELSE 0

RECURSIVE BitLen(_)
BitLen(n) == IF n = 0 THEN 0 ELSE 1 + BitLen(n \div 2)

FZero(s) == [s |-> s, e |-> MinExp, m |-> 0]

\* the float nearest to (-1)^s * (hi * 2^24 + lo) * 2^e0
RoundPack(s, hi, lo, e0) ==
    LET L == IF hi > 0 THEN MantBits + BitLen(hi) ELSE BitLen(lo)
        k == Max(L - MantBits, MinExp - e0)
    IN  IF L = 0 \/ k > L THEN FZero(s)
        ELSE IF k <= 0 THEN [s |-> s, e |-> e0 + k, m |-> lo * 2 ^ (-k)]
        ELSE LET j  == k - MantBits
                 q  == IF j < 0 THEN (hi * 2 ^ (-j)) + (lo \div 2 ^ k)
                       ELSE hi \div 2 ^ j
                 \* the bits dropped, against half a unit of q
                 c  == IF j < 0 THEN Sign((lo % 2 ^ k) - 2 ^ (k - 1))
                       ELSE IF j = 0 THEN Sign(lo - HalfMant)
                       ELSE IF (hi % 2 ^ j) # 2 ^ (j - 1)
                            THEN Sign((hi % 2 ^ j) - 2 ^ (j - 1))
                            ELSE Sign(lo)
                 r  == IF c > 0 \/ (c = 0 /\ q % 2 = 1) THEN q + 1 ELSE q
             IN  IF r = Mant THEN [s |-> s, e |-> e0 + k + 1, m |-> HalfMant]
                 ELSE [s |-> s, e |-> e0 + k, m |-> r]

\* (float) n for an int of at most 24 bits
FromInt(n) == RoundPack(IF n < 0 THEN 1 ELSE 0, 0, IF n < 0 THEN -n ELSE n, 0)

FNeg(a) == [a EXCEPT !.s = 1 - a.s]

\* fabs
FAbs(a) == [a EXCEPT !.s = 0]

\* a * b
FMul(a, b) ==
    LET a1  == a.m \div MantRoot
        a0  == a.m % MantRoot
        b1  == b.m \div MantRoot
        b0  == b.m % MantRoot
        mid == a1 * b0 + a0 * b1
        los == a0 * b0 + ((mid % MantRoot) * MantRoot)
    IN  RoundPack((a.s + b.s) % 2,
                  (a1 * b1) + (mid \div MantRoot) + (los \div Mant),
                  los % Mant,
                  a.e + b.e)

\* a + b
FAdd(a, b) ==
    LET aBig == a.e > b.e \/ (a.e = b.e /\ a.m >= b.m)
        big  == IF aBig THEN a ELSE b
        sml  == IF aBig THEN b ELSE a
        d    == big.e - sml.e
    IN  IF sml.m = 0
        THEN IF big.m = 0 THEN FZero(IF a.s = 1 /\ b.s = 1 THEN 1 ELSE 0)
             ELSE big
        ELSE IF d > MantBits + 2 THEN big
        ELSE LET hi0 == IF d <= MantBits THEN big.m \div 2 ^ (MantBits - d)
                        ELSE big.m * 2 ^ (d - MantBits)
                 lo0 == IF d <= MantBits
                        THEN (big.m % 2 ^ (MantBits - d)) * 2 ^ d
                        ELSE 0
                 los == IF big.s = sml.s THEN lo0 + sml.m ELSE lo0 - sml.m
                 hi  == IF los < 0 THEN hi0 - 1 ELSE hi0 + (los \div Mant)
                 lo  == (los + Mant) % Mant
             IN  IF hi = 0 /\ lo = 0 THEN FZero(0)
                 ELSE RoundPack(big.s, hi, lo, sml.e)

\* a - b
FSub(a, b) == FAdd(a, FNeg(b))

\* n binary digits of r / dv, and the remainder
RECURSIVE DivBits(_, _, _, _)
DivBits(r, dv, q, n) ==
    IF n = 0 THEN <<q, r>>
    ELSE IF r >= dv THEN DivBits((r - dv) * 2, dv, 2 * q + 1, n - 1)
    ELSE DivBits(r * 2, dv, 2 * q, n - 1)

\* a / b, b not zero
FDiv(a, b) ==
    LET sa == MantBits - BitLen(a.m)
        sb == MantBits - BitLen(b.m)
        qr == DivBits(a.m * 2 ^ sa, b.m * 2 ^ sb, 0, MantBits + 2)
        q2 == 2 * qr[1] + (IF qr[2] # 0 THEN 1 ELSE 0)
    IN  IF a.m = 0 THEN FZero((a.s + b.s) % 2)
        ELSE RoundPack((a.s + b.s) % 2, q2 \div Mant, q2 % Mant,
                       (a.e - sa) - (b.e - sb) - (MantBits + 2))

\* a < b
FLess(a, b) ==
    IF a.m = 0 /\ b.m = 0 THEN FALSE
    ELSE IF a.s # b.s THEN a.s = 1
    ELSE IF a.s = 0 THEN a.e < b.e \/ (a.e = b.e /\ a.m < b.m)
    ELSE b.e < a.e \/ (a.e = b.e /\ b.m < a.m)

\* the float a decimal literal n/d denotes, e.g. 0.08f as (8, 100)
Literal(n, d) == FDiv(FromInt(n), FromInt(d))

Float == [s : {0, 1}, e : Int, m : 0..(Mant - 1)]

-----------------------------------------------------------------------------
\* the data members of SnakeGame and what the ports last received
TypeOK ==
    /\ len \in 0..NUM_LEDS
    /\ snake \in [1..len -> [x : Int, y : Int]]
    /\ apple \in [x : Int, y : Int]
    /\ dir \in Dir
    /\ pending \in Dir
    /\ gameOverFlag \in BOOLEAN
    /\ lastStep \in ULong
    /\ stepMs \in Nat
    /\ clock \in ULong
    /\ frame \in {"game", "cross"}
    /\ gameOverSounds \in Nat
    /\ pc \in {"loop", "spawnApple"}
    /\ lastOp \in {"reset", "revive", "setPending", "wait", "cross",
                   "move", "chase", "eat", "die", "spin", "trigger",
                   "readDir", "joyRead"}
    /\ ax0 \in Float /\ ay0 \in Float
    /\ fx \in Float /\ fy \in Float
    /\ dx \in Float /\ dy \in Float
    /\ inX \in Int /\ inY \in Int
    /\ reads \in Nat

-----------------------------------------------------------------------------
(* SnakeGame helpers *)

oppositeNoHorizontal(a, b) ==
    (a = UP /\ b = DOWN) \/ (a = DOWN /\ b = UP)

opposite(a, b) ==
    \/ (a = UP /\ b = DOWN) \/ (a = DOWN /\ b = UP)
    \/ (a = LEFT /\ b = RIGHT) \/ (a = RIGHT /\ b = LEFT)

snakeHas(body, n, px, py) ==
    \E i \in 1..n : body[i].x = px /\ body[i].y = py

snakeHasExceptLastTwo(body, n, px, py) ==
    \E i \in 1..(n - 2) : body[i].x = px /\ body[i].y = py

snakeHasExceptTail(body, n, px, py) ==
    IF n = 0 THEN FALSE
    ELSE \E i \in 1..(n - 1) : body[i].x = px /\ body[i].y = py

\* switch (dir) in step()
Move(p, d) ==
    CASE d = UP    -> Point(p.x, p.y - 1)
      [] d = DOWN  -> Point(p.x, p.y + 1)
      [] d = LEFT  -> Point(p.x - 1, p.y)
      [] d = RIGHT -> Point(p.x + 1, p.y)

OutOfGridOffByOne(p) == p.x < 0 \/ p.x > W \/ p.y < 0 \/ p.y > H

\* the wall test of step()
OutOfGrid(p) == p.x < 0 \/ p.x >= W \/ p.y < 0 \/ p.y >= H

GrowLenAlways(n, ate) == IF n < NUM_LEDS THEN n + 1 ELSE n

\* if (ate && len < NUM_LEDS) len++;
GrowLen(n, ate) == IF ate /\ n < NUM_LEDS THEN n + 1 ELSE n

\* the loop run upwards: every cell receives the old head
ShiftForward(body, n, next) ==
    [i \in 1..n |-> IF i = 1 THEN next ELSE body[1]]

\* the loop stopped at i > 1: snake[1] keeps its old cell
ShiftSkipNeck(body, n, next) ==
    [i \in 1..n |-> IF i = 1 THEN next
                    ELSE IF i = 2 THEN body[2] ELSE body[i - 1]]

\* for (i = len-1; i > 0; i--) snake[i] = snake[i-1]; snake[0] = next;
Shift(body, n, next) ==
    [i \in 1..n |-> IF i = 1 THEN next ELSE body[i - 1]]

NextStepMsUp(s) ==
    IF s > FloorStepMs THEN s + StepDecrement ELSE s

\* if (stepMs > 90) stepMs -= 12;  the guard keeps the difference positive
NextStepMs(s) ==
    IF s > FloorStepMs THEN s - StepDecrement ELSE s

\* the body reset() lays out
ResetSnake == <<Point(3, 4), Point(2, 4), Point(1, 4)>>

\* the subtraction without the wrap: zero when now is below last
ElapsedSaturating(now, last) ==
    IF GreaterEq32(now, last) THEN Sub32(now, last) ELSE U32(0)

\* now - lastStep on unsigned long
Elapsed(now, last) == Sub32(now, last)

-----------------------------------------------------------------------------
(* The input readers *)

Abs(v) == IF v < 0 THEN -v ELSE v

\* static const float DEAD_G = 0.08f, TRIG_G = 0.18f
DEAD_G == Literal(8, 100)
TRIG_G == Literal(18, 100)

\* the weights 0.80f and 0.20f of the smoothing
KeepGain == Literal(80, 100)
SampleGain == Literal(20, 100)

\* imu.accX() / 1000.0f, accX() being the float of mg milli-g
InG(mg) == FDiv(FromInt(mg), FromInt(MilliGPerG))

\* for (int i = 0; i < N; i++) sx += accX() / 1000.0f;  with the device at
\* rest, every sample being v; st is the loop's state [sx, i]
RECURSIVE SumSamples(_, _)
SumSamples(st, v) ==
    IF st.i = CalSamples THEN st.sx
    ELSE SumSamples([sx |-> FAdd(st.sx, v), i |-> st.i + 1], v)

\* calibrateZero() with the device at rest, every sample reading mg: the
\* offset sx / N it stores
calibrateZero(mg) ==
    FDiv(SumSamples([sx |-> FZero(0), i |-> 0], InG(mg)), FromInt(CalSamples))

\* fx = fx * 0.80f + dx  (the weight of the sample left out)
SmoothNoGain(f, d) == FAdd(FMul(f, KeepGain), d)

\* fx = fx * 0.80f + dx * 0.20f
Smooth(f, d) == FAdd(FMul(f, KeepGain), FMul(d, SampleGain))

\* InputICM20948::readDir after the smoothing: dead zone, dominant axis,
\* trigger threshold and the test against a reversal
readDirResult(current, nfx, nfy) ==
    IF FLess(FAbs(nfx), DEAD_G) /\ FLess(FAbs(nfy), DEAD_G) THEN current
    ELSE IF FLess(FAbs(nfy), FAbs(nfx))
    THEN IF FLess(TRIG_G, nfx) /\ current # LEFT THEN RIGHT
         ELSE IF FLess(nfx, FNeg(TRIG_G)) /\ current # RIGHT THEN LEFT
         ELSE current
    ELSE IF FLess(TRIG_G, nfy) /\ current # UP THEN DOWN
         ELSE IF FLess(nfy, FNeg(TRIG_G)) /\ current # DOWN THEN UP
         ELSE current

\* InputJoystick::read: pendingDir after the call, given its value before
\* and the two analogRead() results; currentDir is not used
joyReadResult(currentDir, pendingDir, rx, ry) ==
    LET x == rx - JoyCentre
        y == ry - JoyCentre
    IN  IF Abs(x) > Abs(y)
        THEN IF x > DEADZONE THEN RIGHT
             ELSE IF x < -DEADZONE THEN LEFT
             ELSE pendingDir
        ELSE IF y > DEADZONE THEN DOWN
             ELSE IF y < -DEADZONE THEN UP
             ELSE pendingDir

\* no input device has been read: the filter is at rest
InputIdle ==
    /\ ax0 = FZero(0) /\ ay0 = FZero(0)
    /\ fx = FZero(0) /\ fy = FZero(0)
    /\ dx = FZero(0) /\ dy = FZero(0)
    /\ inX = 0 /\ inY = 0
    /\ reads = 0

\* loop() of the tilt sketch up to update(): readDir(game.getDir()) on the
\* sample (mx, my) in mg, then setPending()
TiltRead(mx, my) ==
    /\ pc = "loop"
    /\ dx' = FSub(InG(mx), ax0)
    /\ dy' = FSub(InG(my), ay0)
    /\ fx' = Smooth(fx, dx')
    /\ fy' = Smooth(fy, dy')
    /\ pending' = readDirResult(dir, fx', fy')
    /\ inX' = mx
    /\ inY' = my
    /\ reads' = reads + 1
    /\ lastOp' = "readDir"
    /\ UNCHANGED <<snake, len, apple, dir, gameOverFlag, lastStep, stepMs,
                   clock, frame, gameOverSounds, pc, ax0, ay0>>

\* loop() of the joystick sketch up to update(), the button not pressed:
\* pending = game.getDir(); input.read(game.getDir(), pending); setPending()
JoyRead(rx, ry) ==
    /\ pc = "loop"
    /\ pending' = joyReadResult(dir, dir, rx, ry)
    /\ inX' = rx
    /\ inY' = ry
    /\ reads' = reads + 1
    /\ lastOp' = "joyRead"
    /\ UNCHANGED <<snake, len, apple, dir, gameOverFlag, lastStep, stepMs,
                   clock, frame, gameOverSounds, pc, ax0, ay0, fx, fy, dx, dy>>

-----------------------------------------------------------------------------
(* spawnApple(): c is the cell the final, accepted pair of random() draws  *)
(* names; the rejected draws before it change no state.  With no free cell *)
(* every draw is rejected and control never leaves the loop.               *)

spawnAppleNoCheck(body, n, c) ==
    /\ apple' = c
    /\ pc' = "loop"

spawnApple(body, n, c) ==
    IF \E q \in Cells : ~snakeHas(body, n, q.x, q.y)
    THEN /\ ~snakeHas(body, n, c.x, c.y)
         /\ apple' = c
         /\ pc' = "loop"
    ELSE /\ apple' = apple
         /\ pc' = "spawnApple"

\* triggerGameOver() as called from step(): the rest of the step is skipped;
\* the cross it draws is accounted for in update()
triggerGameOver ==
    /\ gameOverFlag' = TRUE
    /\ gameOverSounds' = gameOverSounds + 1
    /\ lastOp' = "die"
    /\ UNCHANGED <<snake, len, apple, stepMs, pc>>

\* step() without the return after triggerGameOver()
stepNoReturn(c) ==
    LET d    == IF ~opposite(dir, pending) THEN pending ELSE dir
        next == Move(snake[1], d)
        ate  == next.x = apple.x /\ next.y = apple.y
        over == \/ OutOfGrid(next)
                \/ IF ate THEN snakeHas(snake, len, next.x, next.y)
                          ELSE snakeHasExceptTail(snake, len, next.x, next.y)
        n    == GrowLen(len, ate)
        body == Shift(snake, n, next)
    IN  /\ dir' = d
        /\ gameOverFlag' = over
        /\ gameOverSounds' = IF over THEN gameOverSounds + 1 ELSE gameOverSounds
        /\ len' = n
        /\ snake' = body
        /\ IF ate
           THEN /\ spawnApple(body, n, c)
                /\ stepMs' = IF pc' = "loop" THEN NextStepMs(stepMs) ELSE stepMs
                /\ lastOp' = IF over THEN "die"
                             ELSE IF pc' = "loop" THEN "eat" ELSE "spin"
           ELSE /\ UNCHANGED <<apple, stepMs, pc>>
                /\ lastOp' = IF over THEN "die"
                             ELSE IF next = snake[len] THEN "chase" ELSE "move"

\* step()
step(c) ==
    LET d    == IF ~opposite(dir, pending) THEN pending ELSE dir
        next == Move(snake[1], d)
        ate  == next.x = apple.x /\ next.y = apple.y
    IN  /\ dir' = d
        /\ IF OutOfGrid(next)
           THEN triggerGameOver
           ELSE IF IF ate THEN snakeHas(snake, len, next.x, next.y)
                          ELSE snakeHasExceptTail(snake, len, next.x, next.y)
           THEN triggerGameOver
           ELSE LET n    == GrowLen(len, ate)
                    body == Shift(snake, n, next)
                IN  /\ len' = n
                    /\ snake' = body
                    /\ UNCHANGED <<gameOverFlag, gameOverSounds>>
                    /\ IF ate
                       THEN /\ spawnApple(body, n, c)
                            /\ stepMs' = IF pc' = "loop" THEN NextStepMs(stepMs)
                                                         ELSE stepMs
                            /\ lastOp' = IF pc' = "loop" THEN "eat" ELSE "spin"
                       ELSE /\ UNCHANGED <<apple, stepMs, pc>>
                            /\ lastOp' = IF next = snake[len] THEN "chase"
                                                              ELSE "move"

-----------------------------------------------------------------------------
(* Public operations.  t is the time that passed since the previous call.  *)

ResetKeepSpeed(t, c) ==
    LET now == Add32(clock, t)
    IN  /\ pc = "loop"
        /\ UNCHANGED inputVars
        /\ clock' = now
        /\ gameOverFlag' = FALSE
        /\ dir' = RIGHT
        /\ pending' = RIGHT
        /\ stepMs' = stepMs
        /\ lastStep' = now
        /\ len' = 3
        /\ snake' = ResetSnake
        /\ spawnApple(ResetSnake, 3, c)
        /\ frame' = "game"
        /\ gameOverSounds' = 0
        /\ lastOp' = IF gameOverFlag THEN "revive" ELSE "reset"

\* reset()
Reset(t, c) ==
    LET now == Add32(clock, t)
    IN  /\ pc = "loop"
        /\ UNCHANGED inputVars
        /\ clock' = now
        /\ gameOverFlag' = FALSE
        /\ dir' = RIGHT
        /\ pending' = RIGHT
        /\ stepMs' = StartStepMs
        /\ lastStep' = now
        /\ len' = 3
        /\ snake' = ResetSnake
        /\ spawnApple(ResetSnake, 3, c)
        /\ frame' = "game"
        /\ gameOverSounds' = 0
        /\ lastOp' = IF gameOverFlag THEN "revive" ELSE "reset"

\* setPending(d)
SetPending(d) ==
    /\ pc = "loop"
    /\ UNCHANGED inputVars
    /\ pending' = d
    /\ lastOp' = "setPending"
    /\ UNCHANGED <<snake, len, apple, dir, gameOverFlag, lastStep, stepMs,
                   clock, frame, gameOverSounds, pc>>

UpdateNoReturn(t, c) ==
    LET now == Add32(clock, t)
    IN  /\ pc = "loop"
        /\ UNCHANGED inputVars
        /\ clock' = now
        /\ pending' = pending
        /\ IF GreaterEq32(Elapsed(now, lastStep), U32(stepMs))
           THEN /\ lastStep' = now
                /\ step(c)
                /\ frame' = IF pc' = "loop" THEN "game" ELSE frame
           ELSE /\ frame' = IF gameOverFlag THEN "cross" ELSE "game"
                /\ lastOp' = IF gameOverFlag THEN "cross" ELSE "wait"
                /\ UNCHANGED <<snake, len, apple, dir, gameOverFlag, lastStep,
                               stepMs, gameOverSounds, pc>>

\* update() with the cadence test written now - lastStep > stepMs
UpdateStrict(t, c) ==
    LET now == Add32(clock, t)
    IN  /\ pc = "loop"
        /\ UNCHANGED inputVars
        /\ clock' = now
        /\ pending' = pending
        /\ IF gameOverFlag
           THEN /\ frame' = "cross"
                /\ lastOp' = "cross"
                /\ UNCHANGED <<snake, len, apple, dir, gameOverFlag, lastStep,
                               stepMs, gameOverSounds, pc>>
           ELSE IF ~GreaterEq32(U32(stepMs), Elapsed(now, lastStep))
           THEN /\ lastStep' = now
                /\ step(c)
                /\ frame' = IF pc' = "loop" THEN "game" ELSE frame
           ELSE /\ frame' = "game"
                /\ lastOp' = "wait"
                /\ UNCHANGED <<snake, len, apple, dir, gameOverFlag, lastStep,
                               stepMs, gameOverSounds, pc>>

\* update() calling triggerGameOver() instead of drawGameOverCross()
UpdateRetrigger(t, c) ==
    LET now == Add32(clock, t)
    IN  /\ pc = "loop"
        /\ UNCHANGED inputVars
        /\ clock' = now
        /\ pending' = pending
        /\ IF gameOverFlag
           THEN /\ frame' = "cross"
                /\ lastOp' = "cross"
                /\ gameOverSounds' = gameOverSounds + 1
                /\ UNCHANGED <<snake, len, apple, dir, gameOverFlag, lastStep,
                               stepMs, pc>>
           ELSE IF GreaterEq32(Elapsed(now, lastStep), U32(stepMs))
           THEN /\ lastStep' = now
                /\ step(c)
                /\ frame' = IF pc' = "loop" THEN "game" ELSE frame
           ELSE /\ frame' = "game"
                /\ lastOp' = "wait"
                /\ UNCHANGED <<snake, len, apple, dir, gameOverFlag, lastStep,
                               stepMs, gameOverSounds, pc>>

\* update()
Update(t, c) ==
    LET now == Add32(clock, t)
    IN  /\ pc = "loop"
        /\ UNCHANGED inputVars
        /\ clock' = now
        /\ pending' = pending
        /\ IF gameOverFlag
           THEN /\ frame' = "cross"
                /\ lastOp' = "cross"
                /\ UNCHANGED <<snake, len, apple, dir, gameOverFlag, lastStep,
                               stepMs, gameOverSounds, pc>>
           ELSE IF GreaterEq32(Elapsed(now, lastStep), U32(stepMs))
           THEN /\ lastStep' = now
                /\ step(c)
                /\ frame' = IF pc' = "loop" THEN "game" ELSE frame
           ELSE /\ frame' = "game"
                /\ lastOp' = "wait"
                /\ UNCHANGED <<snake, len, apple, dir, gameOverFlag, lastStep,
                               stepMs, gameOverSounds, pc>>

\* triggerGameOver() called by a client of the class: it is a public member
\* in the joystick sketch (private in the tilt sketch); neither loop() calls it
ClientTriggerGameOver ==
    /\ pc = "loop"
    /\ UNCHANGED inputVars
    /\ gameOverFlag' = TRUE
    /\ frame' = "cross"
    /\ gameOverSounds' = gameOverSounds + 1
    /\ lastOp' = "trigger"
    /\ UNCHANGED <<snake, len, apple, dir, pending, lastStep, stepMs, clock, pc>>

-----------------------------------------------------------------------------
(* Spec: the engine under arbitrary calls, within a time budget.           *)

HalfStep == StartStepMs \div 2
Delays == {HalfStep, StartStepMs, 3 * StartStepMs}
MaxClock == MaxTicks * HalfStep

AppleList ==
    <<Point(4, 4), Point(1, 4), Point(4, 3), Point(0, 0), Point(3, 3),
      Point(5, 4), Point(7, 7)>>
AppleDraws ==
    {AppleList[i] : i \in 1..Min(NumAppleDraws, Len(AppleList))}

\* setup(): game.begin() has run reset()
Init ==
    /\ snake = ResetSnake
    /\ len = 3
    /\ apple \in {c \in AppleDraws : ~snakeHas(ResetSnake, 3, c.x, c.y)}
    /\ dir = RIGHT
    /\ pending = RIGHT
    /\ gameOverFlag = FALSE
    /\ lastStep = U32(0)
    /\ stepMs = StartStepMs
    /\ clock = U32(0)
    /\ frame = "game"
    /\ gameOverSounds = 0
    /\ pc = "loop"
    /\ lastOp = "reset"
    /\ InputIdle

Next ==
    \/ \E d \in Dir : SetPending(d)
    \/ \E t \in Delays, c \in AppleDraws :
          clock.hi = 0 /\ clock.lo + t <= MaxClock /\ Update(t, c)
    \/ \E t \in Delays, c \in AppleDraws :
          clock.hi = 0 /\ clock.lo + t <= MaxClock /\ Reset(t, c)

Spec == Init /\ [][Next]_vars

-----------------------------------------------------------------------------
(* CycleSpec: the same engine driven by a player who steers the snake      *)
(* along a closed tour of all 64 cells, with every apple landing a few     *)
(* cells ahead of the head.  The tour runs right along the even rows and   *)
(* left along the odd rows of columns 1..7, left along row 7 and back up   *)
(* column 0; it passes (1,4),(2,4),(3,4),(4,4), the cells of reset().      *)

CycleDir(p) ==
    IF p.x = 0 THEN (IF p.y > 0 THEN UP ELSE RIGHT)
    ELSE IF p.y = H - 1 THEN LEFT
    ELSE IF p.y % 2 = 0 THEN (IF p.x < W - 1 THEN RIGHT ELSE DOWN)
    ELSE (IF p.x > 1 THEN LEFT ELSE DOWN)

CycleSucc(p) == Move(p, CycleDir(p))

RECURSIVE CycleAhead(_, _)
CycleAhead(p, k) == IF k = 0 THEN p ELSE CycleAhead(CycleSucc(p), k - 1)

\* the cells random() may name once the head stands on p
CycleDraws(p) == {CycleAhead(p, k) : k \in 1..AppleAhead}

CycleInit ==
    /\ snake = ResetSnake
    /\ len = 3
    /\ apple \in CycleDraws(ResetSnake[1])
    /\ dir = RIGHT
    /\ pending = RIGHT
    /\ gameOverFlag = FALSE
    /\ lastStep = U32(0)
    /\ stepMs = StartStepMs
    /\ clock = U32(0)
    /\ frame = "game"
    /\ gameOverSounds = 0
    /\ pc = "loop"
    /\ lastOp = "reset"
    /\ InputIdle

CycleNext ==
    \/ SetPending(CycleDir(snake[1]))
    \/ /\ pending = CycleDir(snake[1])
       /\ clock.hi = 0
       /\ clock.lo + StartStepMs <= CycleTicks * StartStepMs
       /\ \E c \in CycleDraws(CycleSucc(snake[1])) : Update(StartStepMs, c)
    \/ /\ clock.hi = 0
       /\ clock.lo + StartStepMs <= CycleTicks * StartStepMs
       /\ \E c \in CycleDraws(ResetSnake[1]) : Reset(StartStepMs, c)

CycleSpec == CycleInit /\ [][CycleNext]_vars

-----------------------------------------------------------------------------
(* InputSpec: the input half of loop() applied to arbitrary samples while  *)
(* the snake keeps its heading.  The game stands in one of four states     *)
(* that Spec reaches, one per heading; a behaviour reads either the        *)
(* accelerometer (tilt sketch) or the joystick (joystick sketch).          *)

\* after reset() and the steps RIGHT; UP; DOWN; UP then LEFT
Headings ==
    { [d |-> RIGHT, t |-> 1,
       body |-> <<Point(4, 4), Point(3, 4), Point(2, 4)>>],
      [d |-> UP, t |-> 1,
       body |-> <<Point(3, 3), Point(3, 4), Point(2, 4)>>],
      [d |-> DOWN, t |-> 1,
       body |-> <<Point(3, 5), Point(3, 4), Point(2, 4)>>],
      [d |-> LEFT, t |-> 2,
       body |-> <<Point(2, 3), Point(3, 3), Point(3, 4)>>] }

\* accelerometer samples in mg: a full tilt either way and a slight one
TiltSamples == {-1000, 50, 1000}
\* what the device reads at rest while calibrateZero() runs, in mg
RestOffsets == {0, 20}
\* analogRead() results: the stops, the centre and a slight push either way
JoySamples == {0, 400, JoyCentre, 600, 1023}

InputInit ==
    /\ \E h \in Headings :
          /\ snake = h.body
          /\ dir = h.d
          /\ pending = h.d
          /\ clock = U32(h.t * StartStepMs)
          /\ lastStep = U32(h.t * StartStepMs)
    /\ len = 3
    /\ apple = Point(0, 0)
    /\ gameOverFlag = FALSE
    /\ stepMs = StartStepMs
    /\ frame = "game"
    /\ gameOverSounds = 0
    /\ pc = "loop"
    /\ lastOp = "move"
    /\ ax0 \in {calibrateZero(m) : m \in RestOffsets}
    /\ ay0 \in {calibrateZero(m) : m \in RestOffsets}
    /\ fx = FZero(0) /\ fy = FZero(0)
    /\ dx = FZero(0) /\ dy = FZero(0)
    /\ inX = 0 /\ inY = 0
    /\ reads = 0

InputNext ==
    \/ \E mx \in TiltSamples, my \in TiltSamples :
          /\ reads < MaxReads
          /\ lastOp # "joyRead"
          /\ TiltRead(mx, my)
    \/ \E rx \in JoySamples, ry \in JoySamples :
          /\ reads < MaxReads
          /\ lastOp # "readDir"
          /\ ax0 = FZero(0) /\ ay0 = FZero(0)
          /\ JoyRead(rx, ry)

InputSpec == InputInit /\ [][InputNext]_vars

-----------------------------------------------------------------------------
(* WrapSpec: the game is reset half a step interval before millis() wraps  *)
(* to zero and played across the wrap.                                     *)

WrapStart == [hi |-> Limb - 1, lo |-> Limb - HalfStep]

\* the time since the reset at WrapStart, as a clock that never wraps
\* would tell it (for times less than 2^16 ms after WrapStart)
SinceWrapStart(v) ==
    IF v.hi = WrapStart.hi THEN v.lo - WrapStart.lo
    ELSE v.lo + (Limb - WrapStart.lo)

WrapInit ==
    /\ snake = ResetSnake
    /\ len = 3
    /\ apple \in {c \in AppleDraws : ~snakeHas(ResetSnake, 3, c.x, c.y)}
    /\ dir = RIGHT
    /\ pending = RIGHT
    /\ gameOverFlag = FALSE
    /\ lastStep = WrapStart
    /\ stepMs = StartStepMs
    /\ clock = WrapStart
    /\ frame = "game"
    /\ gameOverSounds = 0
    /\ pc = "loop"
    /\ lastOp = "reset"
    /\ InputIdle

WrapNext ==
    \/ \E d \in Dir : SetPending(d)
    \/ \E t \in Delays, c \in AppleDraws :
          /\ SinceWrapStart(clock) + t <= WrapTicks * HalfStep
          /\ Update(t, c)
    \/ \E t \in Delays, c \in AppleDraws :
          /\ SinceWrapStart(clock) + t <= WrapTicks * HalfStep
          /\ Reset(t, c)

WrapSpec == WrapInit /\ [][WrapNext]_vars

-----------------------------------------------------------------------------
(* ApiSpec: the engine under arbitrary calls of every public member of the *)
(* joystick sketch's SnakeGame, triggerGameOver() included.                *)

ApiInit == Init

ApiNext ==
    \/ \E d \in Dir : SetPending(d)
    \/ \E t \in Delays, c \in AppleDraws :
          /\ clock.hi = 0
          /\ clock.lo + t <= ApiTicks * HalfStep
          /\ Update(t, c)
    \/ \E t \in Delays, c \in AppleDraws :
          /\ clock.hi = 0
          /\ clock.lo + t <= ApiTicks * HalfStep
          /\ Reset(t, c)
    \/ /\ gameOverSounds < MaxSounds
       /\ ClientTriggerGameOver

ApiSpec == ApiInit /\ [][ApiNext]_vars

-----------------------------------------------------------------------------
(* Vocabulary of the properties, stated without the engine's own helpers.  *)

StepOps == {"move", "chase", "eat", "spin", "die"}
ResetOps == {"reset", "revive"}
ReadOps == {"readDir", "joyRead"}

\* the latest raw sample is inside the dead zone on both axes, once the rest
\* offset (accelerometer) or the centre (joystick) is taken off
Quiet ==
    IF lastOp = "readDir"
    THEN /\ FLess(FAbs(dx), DEAD_G)
         /\ FLess(FAbs(dy), DEAD_G)
    ELSE /\ Abs(inX - JoyCentre) < DEADZONE
         /\ Abs(inY - JoyCentre) < DEADZONE

\* |f| <= DEAD_G
WithinDeadZone(f) == ~FLess(DEAD_G, FAbs(f))

\* the largest float below DEAD_G: the strongest sample inside the dead zone
QuietCorner == [DEAD_G EXCEPT !.m = @ - 1]

\* smoothing the strongest quiet sample into a value on the threshold gives
\* a value not beyond the threshold
QuietCornerStays == WithinDeadZone(Smooth(DEAD_G, QuietCorner))

Reverse(d) ==
    CASE d = UP -> DOWN [] d = DOWN -> UP [] d = LEFT -> RIGHT [] d = RIGHT -> LEFT

SnakeCells == {snake[i] : i \in 1..len}

InGrid(p) == p.x \in 0..7 /\ p.y \in 0..7

\* the cell one step from p in direction d (y grows downwards)
Ahead(p, d) ==
    [x |-> p.x + (IF d = RIGHT THEN 1 ELSE IF d = LEFT THEN -1 ELSE 0),
     y |-> p.y + (IF d = DOWN THEN 1 ELSE IF d = UP THEN -1 ELSE 0)]

-----------------------------------------------------------------------------
(* C1: a step never turns the snake around: the direction after a step is  *)
(* never the opposite of the direction before it, and a pending direction  *)
(* that is the opposite of the current one leaves the direction unchanged. *)
C1_NoReversal ==
    [][lastOp' \in StepOps =>
          /\ dir' # Reverse(dir)
          /\ (pending = Reverse(dir) => dir' = dir)]_vars

\* a step has run while the pending direction was the opposite one
C1_Witness == lastOp \in StepOps /\ pending = Reverse(dir)

(* C2: after a completed step that did not end the game, the cells         *)
(* snake[0..len-1] are pairwise distinct.                                  *)
C2_BodyDistinct ==
    lastOp \in {"move", "chase", "eat"} =>
        \A i, j \in 1..len : i # j => snake[i] # snake[j]

\* the head has just moved onto the cell the tail was leaving
C2_Witness == lastOp = "chase" /\ ~gameOverFlag

(* C3: every cell snake[0..len-1] lies in 0..7 x 0..7, also after the game *)
(* ended on a wall.                                                        *)
C3_BodyInGrid == \A i \in 1..len : InGrid(snake[i])

\* the game has just ended on a wall: the head is on the border, heading out
C3_Witness ==
    /\ lastOp = "die"
    /\ gameOverFlag
    /\ \/ (dir = RIGHT /\ snake[1].x = 7) \/ (dir = LEFT /\ snake[1].x = 0)
       \/ (dir = DOWN /\ snake[1].y = 7) \/ (dir = UP /\ snake[1].y = 0)

(* C4: stepMs never falls below the floor value 90.                        *)
C4_StepMsAtLeastFloor == stepMs >= 90

(* C5: between two reset() calls stepMs never increases, and it changes    *)
(* only in a step that eats the apple.                                     *)
C5_StepMsNonIncreasing ==
    [][lastOp' \notin ResetOps =>
          /\ stepMs' <= stepMs
          /\ (stepMs' # stepMs => lastOp' = "eat")]_vars

\* the interval has been shortened by eaten apples
C5_Witness == lastOp = "eat" /\ stepMs < 200

(* C6: between two reset() calls len never decreases; a step that eats     *)
(* below 64 adds exactly 1, any other call leaves len unchanged, and a     *)
(* length of 64 stays 64.                                                  *)
C6_LengthGrowth ==
    [][lastOp' \notin ResetOps =>
          /\ len' >= len
          /\ (lastOp' \in {"eat", "spin"} /\ len < 64 => len' = len + 1)
          /\ (lastOp' \notin {"eat", "spin"} => len' = len)
          /\ (len = 64 => len' = 64)]_vars

\* the snake has grown all the way to 64 cells
C6_Witness == len = 64

(* C7: when spawnApple() has returned, in reset() or after an eating step, *)
(* with len < 64, the apple is on the grid and on no cell of the snake.    *)
C7_AppleOffSnake ==
    (lastOp \in ResetOps \cup {"eat"} /\ pc = "loop" /\ len < 64) =>
        /\ InGrid(apple)
        /\ \A i \in 1..len : snake[i] # apple

\* an apple has been placed after a meal while a cell random() can name was
\* occupied by the snake
C7_Witness ==
    /\ lastOp = "eat"
    /\ \E c \in AppleDraws : c \in SnakeCells

(* C8: at every call of spawnApple() the snake leaves at least one cell of *)
(* the grid free, so the placement loop can terminate.                     *)
C8_FreeCellAtSpawn ==
    lastOp \in ResetOps \cup {"eat", "spin"} =>
        Cardinality(SnakeCells) < 64

(* C9: game over is absorbing until reset(): update() and setPending()     *)
(* keep gameOverFlag and leave snake, len, apple, dir, stepMs and lastStep *)
(* unchanged.                                                              *)
C9_GameOverAbsorbing ==
    [][(gameOverFlag /\ lastOp' \notin ResetOps) =>
          /\ gameOverFlag'
          /\ UNCHANGED <<snake, len, apple, dir, stepMs, lastStep>>]_vars

\* in game over, update() has drawn the cross and setPending() was called
C9_Witness == gameOverFlag /\ frame = "cross" /\ lastOp = "setPending"

(* C10: reset() yields the fixed start state whatever the state before.    *)
C10_ResetState ==
    lastOp \in ResetOps =>
        /\ gameOverFlag = FALSE
        /\ dir = RIGHT
        /\ pending = RIGHT
        /\ stepMs = 300
        /\ lastStep = clock
        /\ len = 3
        /\ snake = <<[x |-> 3, y |-> 4], [x |-> 2, y |-> 4], [x |-> 1, y |-> 4]>>
        /\ apple \notin {[x |-> 3, y |-> 4], [x |-> 2, y |-> 4], [x |-> 1, y |-> 4]}

\* reset() has been called in game over
C10_Witness == lastOp = "revive"

(* C11: an update() in the running state runs exactly one step and sets   *)
(* lastStep to now when now - lastStep >= stepMs, and otherwise runs no    *)
(* step and changes nothing of the engine; it never runs a second step.    *)
C11_Cadence ==
    [][lastOp' \in StepOps \cup {"wait"} =>
          IF GreaterEq32(Sub32(clock', lastStep), U32(stepMs))
          THEN /\ lastOp' \in StepOps
               /\ lastStep' = clock'
               /\ \/ lastOp' = "die" /\ snake' = snake
                  \/ /\ lastOp' # "die"
                     /\ \E d \in Dir : snake'[1] = Ahead(snake[1], d)
                     /\ \A i \in 2..len : snake'[i] = snake[i - 1]
          ELSE /\ lastOp' = "wait"
               /\ UNCHANGED <<snake, len, apple, dir, pending, gameOverFlag,
                              lastStep, stepMs, gameOverSounds>>]_vars

\* update() has declined to step, half an interval after the last step
C11_Witness == lastOp = "wait" /\ clock # lastStep /\ ~gameOverFlag

(* C12: the direction a reader hands to setPending() is never the exact    *)
(* opposite of the current direction it was given.  Fails for the joystick *)
(* reader, which does not look at currentDir.                              *)
C12_ReaderNeverReverses == lastOp \in ReadOps => pending # Reverse(dir)

(* C13 as stated: a read whose raw sample is inside the dead zone on both  *)
(* axes returns the current direction, whatever samples preceded it.       *)
(* Fails for the accelerometer: the smoothed value of earlier strong       *)
(* samples is still past the trigger threshold.                            *)
C13_QuietAfterAnything == (lastOp \in ReadOps /\ Quiet) => pending = dir

(* C13 amended: a read whose raw sample is inside the dead zone on both    *)
(* axes, made while the smoothed value is not beyond the dead-zone         *)
(* threshold on either axis (it is zero after calibration), returns the    *)
(* current direction and leaves the smoothed value not beyond the          *)
(* threshold; so does every read of a run of such samples, however long.   *)
(* The smoothing is monotone in both arguments, so the largest smoothed    *)
(* value such a read can produce is the one of QuietCorner.                *)
C13_QuietFromRest ==
    [][/\ QuietCornerStays
       /\ (/\ lastOp' \in ReadOps
           /\ Quiet'
           /\ WithinDeadZone(fx)
           /\ WithinDeadZone(fy))
          => /\ pending' = dir
             /\ WithinDeadZone(fx')
             /\ WithinDeadZone(fy')]_vars

\* three reads of a 50 mg tilt on both axes since a calibration at 0 mg
C13_Witness ==
    /\ lastOp = "readDir"
    /\ Quiet
    /\ reads >= 3
    /\ ax0 = FZero(0) /\ ay0 = FZero(0)
    /\ fx = Smooth(Smooth(Smooth(FZero(0), InG(50)), InG(50)), InG(50))
    /\ fy = fx
    /\ pending = dir

(* C14: after every update() the frame on the matrix reflects the engine:  *)
(* the red cross whenever gameOverFlag is set, also right after the step   *)
(* that ended the game, and the snake/apple view otherwise.                *)
C14_FrameReflectsState ==
    lastOp \in {"wait", "cross", "move", "chase", "eat", "die"} =>
        (frame = "cross") = gameOverFlag

(* C15: a step that does not end the game puts next, the head moved one    *)
(* cell along the resolved direction, in front of the old body without its *)
(* tail (no apple, same length) or in front of the whole old body (apple   *)
(* eaten below 64 cells, length + 1).                                      *)
C15_StepResult ==
    [][LET next == Ahead(snake[1], dir')
       IN  /\ lastOp' \in {"move", "chase", "eat"} =>
                 dir' = IF pending = Reverse(dir) THEN dir ELSE pending
           /\ lastOp' \in {"move", "chase"} =>
                 /\ next # apple
                 /\ len' = len
                 /\ snake' = <<next>> \o SubSeq(snake, 1, len - 1)
           /\ (lastOp' = "eat" /\ len < 64) =>
                 /\ next = apple
                 /\ len' = len + 1
                 /\ snake' = <<next>> \o snake]_vars

\* the start body has eaten the apple at (4,4)
C15_Witness ==
    /\ lastOp = "eat"
    /\ snake = <<[x |-> 4, y |-> 4], [x |-> 3, y |-> 4],
                 [x |-> 2, y |-> 4], [x |-> 1, y |-> 4]>>

(* C16: a step that ends the game leaves snake, len, apple and stepMs as   *)
(* they were and sets gameOverFlag.                                        *)
C16_GameOverStepFrame ==
    [][lastOp' = "die" =>
          /\ gameOverFlag'
          /\ UNCHANGED <<snake, len, apple, stepMs>>]_vars

\* the game has just ended with the head at (7,4) heading right
C16_Witness ==
    /\ lastOp = "die"
    /\ gameOverFlag
    /\ dir = RIGHT
    /\ snake[1] = [x |-> 7, y |-> 4]

(* C17: between two reset() calls the game-over sound is played exactly    *)
(* once if the game has ended and not at all otherwise.                    *)
C17_SoundOnce == gameOverSounds = IF gameOverFlag THEN 1 ELSE 0

\* the cross has been redrawn by an update() in game over, the sound played once
C17_Witness == gameOverFlag /\ lastOp = "cross" /\ gameOverSounds = 1

(* C18: a step fires exactly when the time since the last step, told by a  *)
(* clock that never wraps, is at least stepMs, also when millis() wrapped  *)
(* to zero in between.                                                     *)
C18_WrapSafe ==
    [][lastOp' \in StepOps \cup {"wait"} =>
          ((lastOp' \in StepOps) <=>
             (SinceWrapStart(clock') - SinceWrapStart(lastStep) >= stepMs))]_vars

\* the first step since the reset at WrapStart, taken after the wrap
C18_Witness ==
    /\ lastOp \in StepOps
    /\ clock = U32(HalfStep)
    /\ lastStep = clock

(* C19: between calls the apple is on no cell snake[0..len-1].             *)
C19_AppleNeverOnSnake ==
    pc = "loop" => \A i \in 1..len : snake[i] # apple

\* a grown snake has moved without eating
C19_Witness == lastOp \in {"move", "chase"} /\ len >= 5

(* C20: the body is contiguous: snake[i] and snake[i-1] differ by exactly  *)
(* 1 in exactly one coordinate.                                            *)
C20_BodyContiguous ==
    \A i \in 2..len :
        \/ /\ snake[i].x = snake[i - 1].x
           /\ (snake[i].y - snake[i - 1].y) \in {-1, 1}
        \/ /\ snake[i].y = snake[i - 1].y
           /\ (snake[i].x - snake[i - 1].x) \in {-1, 1}

\* a grown snake with a bend in it
C20_Witness ==
    /\ len >= 5
    /\ snake[1].x # snake[len].x
    /\ snake[1].y # snake[len].y

====
